---------------------------- MODULE Spec2Model ----------------------------
(***************************************************************************)
(* BaseModule.init_weights of perceptia/modules/base_module.py as a state  *)
(* machine.  A module tree is built with add_module, init_weights is       *)
(* called from outside on any BaseModule, and the recursion of             *)
(* init_weights is unfolded into an explicit call stack, one frame per     *)
(* active invocation.  The log records, for the current outermost call,    *)
(* every rule application, visit, warning, allocation and teardown in the  *)
(* order the code performs them.                                           *)
(***************************************************************************)
EXTENDS Integers, Sequences, FiniteSets, TLC

\* Number of nn.Module objects constructed.
MaxNodes == 3
\* Number of init_weights calls made from outside.
MaxCalls == 2
\* Applications of one rule are counted up to MaxCount.
MaxCount == 2

Nodes == 1..MaxNodes

\* "no attribute": hasattr(m, "_params_init_info") is false.
None == 0

VARIABLES
    kind,              \* node -> "base" (BaseModule) | "plain" (nn.Module) | "wrapper" (has .module)
    init_cfg,          \* node -> self.init_cfg
    children,          \* node -> the node's _modules, in registration order
    is_init,           \* node -> self._is_init
    params_init_info,  \* node -> the tracking dict the node refers to, or None
    info,              \* tracking dict -> parameter -> its "init_info" entry
    stack,             \* active init_weights invocations, outermost first
    log,               \* events of the current outermost call, in order
    reports,           \* what each _finalize_init of the current outermost call wrote
    result,            \* how the last outermost call ended
    calls,             \* outermost calls made so far
    init0,             \* is_init as it was when the current outermost call began
    applied            \* node -> rule index -> times the rule was applied since construction

vars == <<kind, init_cfg, children, is_init, params_init_info, info,
          stack, log, reports, result, calls, init0, applied>>

static == <<kind, init_cfg>>

(***************************************************************************)
(* init_cfg values.  A rule is a dict with a "type"; ok says whether the   *)
(* dispatch of the rule succeeds (an unknown type or a missing checkpoint  *)
(* makes initialize raise).                                                *)
(***************************************************************************)
Range(s) == {s[i] : i \in DOMAIN s}

Rule(t, ok) == [type |-> t, ok |-> ok]

CfgNone == [form |-> "none", body |-> <<>>]
CfgDict(r) == [form |-> "dict", body |-> <<r>>]
CfgList(rs) == [form |-> "list", body |-> rs]

\* The node types a tree is built from: (kind, init_cfg).
NodeTypes ==
    << [kind |-> "base", cfg |-> CfgNone],
       [kind |-> "base", cfg |-> CfgDict(Rule("Constant", TRUE))],
       [kind |-> "base", cfg |-> CfgList(<< Rule("Pretrained", TRUE), Rule("Constant", TRUE),
                                           Rule("PretrainedInit", TRUE), Rule("Normal", TRUE) >>)],
       [kind |-> "base", cfg |-> CfgList(<< Rule("Constant", TRUE), Rule("Unknown", FALSE) >>)],
       [kind |-> "base", cfg |-> CfgDict(Rule("Pretrained", FALSE))],
       [kind |-> "plain", cfg |-> CfgNone],
       [kind |-> "wrapper", cfg |-> CfgNone] >>

(***************************************************************************)
(* Tree helpers: nn.Module.children(), modules(), named_parameters().      *)
(***************************************************************************)
RECURSIVE ModulesOfSeq(_, _)
RECURSIVE Modules(_, _)
\* self.modules(): the node and its descendants, depth first, in registration order.
Modules(ch, n) == <<n>> \o ModulesOfSeq(ch, ch[n])
ModulesOfSeq(ch, s) ==
    IF s = <<>> THEN <<>> ELSE Modules(ch, Head(s)) \o ModulesOfSeq(ch, Tail(s))

ModuleSet(n) == Range(Modules(children, n))

HasParent(n) == \E p \in Nodes : n \in Range(children[p])

\* Every module owns one parameter, named by the module; named_parameters()
\* of a node lists the parameters of modules() in the same order.
NamedParameters(n) == Modules(children, n)

RECURSIVE UnwrapModel(_)
\* transformers.unwrap_model: follow the attribute "module" while there is one.
UnwrapModel(n) ==
    IF kind[n] = "wrapper" /\ children[n] # <<>>
    THEN UnwrapModel(children[n][1])
    ELSE n

HasInitWeights(n) == kind[n] = "base"

\* getattr(target, "is_init", False)
GetIsInit(n) == IF kind[n] = "base" THEN is_init[n] ELSE FALSE


(***************************************************************************)
(* Provenance entries and log events.                                      *)
(***************************************************************************)
Desc(how, by, idx) == [how |-> how, by |-> by, idx |-> idx]
NoInfo == Desc("absent", 0, 0)
NoEntries == [p \in Nodes |-> NoInfo]

Ev(op, n, idx) == [op |-> op, node |-> n, idx |-> idx]

(***************************************************************************)
(* Lines 46-61: top-level detection, registration of every parameter and   *)
(* propagation of the shared dict to self.modules().                       *)
(***************************************************************************)
\* Mutant of IsTopLevel: the outermost invocation is the top-level one.
IsTopLevelOutermost(n) == stack = <<>>

\* Line 46.
IsTopLevel(n) == params_init_info[n] = None

\* Mutant of Propagated: line 60 walks self.children() instead of self.modules().
PropagatedToChildren(n) ==
    [m \in Nodes |-> IF IsTopLevel(n) /\ m \in {n} \cup Range(children[n])
                     THEN n ELSE params_init_info[m]]

\* Mutant of Propagated: the dict is installed on the whole tree n is part of.
PropagatedFromRoot(n) ==
    [m \in Nodes |->
        IF IsTopLevel(n) /\ \E r \in Nodes : n \in ModuleSet(r) /\ m \in ModuleSet(r)
        THEN n ELSE params_init_info[m]]

\* _params_init_info of every module after lines 49-61 ran on n.
Propagated(n) ==
    [m \in Nodes |-> IF IsTopLevel(n) /\ m \in ModuleSet(n) THEN n ELSE params_init_info[m]]

\* Mutant of Registered: only the parameter of n itself is registered.
RegisteredSelfOnly(n) ==
    IF IsTopLevel(n)
    THEN [info EXCEPT ![n] = [p \in Nodes |-> IF p = n THEN Desc("unchanged", n, 0)
                                               ELSE NoInfo]]
    ELSE info

\* The tracking dicts after lines 49-61 ran on n: the new dict holds an entry
\* for every parameter of n.named_parameters(); a dict that no module refers
\* to any longer is gone.
Registered(n) ==
    IF IsTopLevel(n)
    THEN [d \in Nodes |->
             IF d = n
             THEN [p \in Nodes |-> IF p \in ModuleSet(n) THEN Desc("unchanged", n, 0)
                                   ELSE NoInfo]
             ELSE IF \E m \in Nodes \ ModuleSet(n) : params_init_info[m] = d
                  THEN info[d]
                  ELSE NoEntries]
    ELSE info

Frame(n) == [node |-> n, pc |-> "guard", top |-> IsTopLevel(n), i |-> 1]

EnterEvents(n) ==
    <<Ev("call", n, 0)>> \o (IF IsTopLevel(n) THEN <<Ev("alloc", n, 0)>> ELSE <<>>)

(***************************************************************************)
(* Lines 69-80: the split of init_cfg, as the indices of the rules.        *)
(***************************************************************************)
Cfgs(n) == IF init_cfg[n].form # "none" /\ init_cfg[n].body # <<>>
           THEN init_cfg[n].body
           ELSE <<>>

\* Mutant of IsPretrained: no rule is recognised as pretrained.
IsPretrainedNever(r) == FALSE

\* Mutant of IsPretrained: the class PretrainedInit is not recognised.
IsPretrainedStringOnly(r) == r.type = "Pretrained"

IsPretrained(r) == r.type \in {"Pretrained", "PretrainedInit"}

RECURSIVE SelectReversed(_, _, _)
\* Mutant of Select: each rule is put at the front of its list.
SelectReversed(rules, i, pre) ==
    IF i > Len(rules) THEN <<>>
    ELSE SelectReversed(rules, i + 1, pre)
             \o (IF IsPretrained(rules[i]) = pre THEN <<i>> ELSE <<>>)

RECURSIVE Select(_, _, _)
\* The indices i..Len(rules) of the rules whose IsPretrained is pre, in order.
Select(rules, i, pre) ==
    IF i > Len(rules) THEN <<>>
    ELSE (IF IsPretrained(rules[i]) = pre THEN <<i>> ELSE <<>>) \o Select(rules, i + 1, pre)

\* Mutant of OtherCfgs: the pretrained rules are not taken out of other_cfgs.
OtherCfgsAll(n) == [i \in 1..Len(Cfgs(n)) |-> i]

OtherCfgs(n) == Select(Cfgs(n), 1, FALSE)
PretrainedCfgs(n) == Select(Cfgs(n), 1, TRUE)

(***************************************************************************)
(* initialize(module, cfgs): the rules are dispatched in order; the first  *)
(* rule whose dispatch fails raises.                                       *)
(***************************************************************************)
RECURSIVE Applied(_, _)
\* The rules of idxs dispatched successfully before the first failure.
Applied(n, idxs) ==
    IF idxs = <<>> \/ ~Cfgs(n)[Head(idxs)].ok THEN <<>>
    ELSE <<Head(idxs)>> \o Applied(n, Tail(idxs))

Raises(n, idxs) == Len(Applied(n, idxs)) < Len(idxs)

\* The count of applications after initialize(n, idxs); more than MaxCount
\* applications are counted as MaxCount.
Counted(n, idxs) ==
    [applied EXCEPT ![n] = [idx \in DOMAIN @ |->
        IF idx \in Range(Applied(n, idxs)) /\ @[idx] < MaxCount THEN @[idx] + 1 ELSE @[idx]]]

InitializeEvents(n, idxs) ==
    [k \in 1..Len(Applied(n, idxs)) |-> Ev("apply", n, Applied(n, idxs)[k])]
    \o (IF Raises(n, idxs) THEN <<Ev("fail", n, idxs[Len(Applied(n, idxs)) + 1])>> ELSE <<>>)

\* The tracking dicts after initialize(n, idxs): each applied rule records
\* itself on the parameter of n.
InitializeInfo(n, idxs) ==
    IF Applied(n, idxs) = <<>> \/ params_init_info[n] = None THEN info
    ELSE [info EXCEPT ![params_init_info[n]][n] =
              Desc("rule", n, Applied(n, idxs)[Len(Applied(n, idxs))])]

\* update_init_info(target, init_info=...) of line 91, on dicts inf seen through pii.
UpdateInitInfo(pii, inf, target) ==
    IF pii[target] = None \/ OtherCfgs(target) = <<>> THEN inf
    ELSE [inf EXCEPT ![pii[target]][target] = Desc("user", target, 0)]

(***************************************************************************)
(* _finalize_init, lines 104-126.                                          *)
(***************************************************************************)
\* The records written for self.named_parameters().
Report(n, inf) ==
    [k \in 1..Len(NamedParameters(n)) |->
        [name |-> NamedParameters(n)[k],
         info |-> inf[params_init_info[n]][NamedParameters(n)[k]]]]

\* Mutant of Cleaned: the dict is deleted from self only.
CleanedSelfOnly(n) == [params_init_info EXCEPT ![n] = None]

\* Lines 125-126: del m._params_init_info for every m of self.modules().
Cleaned(n) ==
    [m \in Nodes |-> IF m \in ModuleSet(n) THEN None ELSE params_init_info[m]]

\* The dict of the call is unreachable once no module refers to it.
Released(n, inf) == [inf EXCEPT ![params_init_info[n]] = NoEntries]

FinalizeEvents(n) == <<Ev("report", n, 0), Ev("teardown", n, 0)>>

(***************************************************************************)
(* The state after construction: BaseModule.__init__, lines 25-28.         *)
(***************************************************************************)
TypeChoices ==
    {t \in [Nodes -> 1..Len(NodeTypes)] : \A n \in Nodes : n = MaxNodes \/ t[n] <= t[n + 1]}

Init ==
    /\ \E t \in TypeChoices :
          /\ kind = [n \in Nodes |-> NodeTypes[t[n]].kind]
          /\ init_cfg = [n \in Nodes |-> NodeTypes[t[n]].cfg]
    /\ children = [n \in Nodes |-> <<>>]
    /\ is_init = [n \in Nodes |-> FALSE]
    /\ params_init_info = [n \in Nodes |-> None]
    /\ info = [m \in Nodes |-> NoEntries]
    /\ stack = <<>>
    /\ log = <<>>
    /\ reports = <<>>
    /\ result = "none"
    /\ calls = 0
    /\ init0 = [n \in Nodes |-> FALSE]
    /\ applied = [n \in Nodes |-> [idx \in DOMAIN init_cfg[n].body |-> 0]]

(***************************************************************************)
(* nn.Module.add_module: c, just constructed, becomes the last child of p.  *)
(* The record of the last call (log, reports, result, init0) described the *)
(* tree as it was, and is dropped.                                         *)
(***************************************************************************)
\* Modules just constructed and of the same class and init_cfg are
\* interchangeable: the one of lowest index is used first.
Fresh(n) ==
    /\ children[n] = <<>> /\ ~is_init[n] /\ params_init_info[n] = None
    /\ ~HasParent(n)
First(n, other) ==
    Fresh(n) => ~\E m \in Nodes \ {other} :
                    m < n /\ kind[m] = kind[n] /\ init_cfg[m] = init_cfg[n] /\ Fresh(m)

\* One tree is grown, from its root down: a module just constructed is
\* called, or given a child, only while every module is.  (A module called
\* on its own and added to a parent afterwards is in the state of one added
\* first and called afterwards.)
Seed(n) == Fresh(n) => \A m \in Nodes : Fresh(m)

AddChild(p, c) ==
    /\ stack = <<>>
    /\ Fresh(c)
    /\ ~HasParent(c)
    /\ p \notin ModuleSet(c)
    /\ Seed(p)
    /\ First(p, c) /\ First(c, p)
    /\ children' = [children EXCEPT ![p] = Append(@, c)]
    /\ log' = <<>>
    /\ reports' = <<>>
    /\ result' = "none"
    /\ init0' = is_init
    /\ UNCHANGED <<static, is_init, params_init_info, info, stack, calls, applied>>

(***************************************************************************)
(* init_weights called from outside on n: lines 44-61.                     *)
(***************************************************************************)
Call(n) ==
    /\ stack = <<>>
    /\ calls < MaxCalls
    /\ HasInitWeights(n)
    /\ Seed(n)
    /\ First(n, n)
    /\ calls' = calls + 1
    /\ init0' = is_init
    /\ result' = "running"
    /\ params_init_info' = Propagated(n)
    /\ info' = Registered(n)
    /\ stack' = <<Frame(n)>>
    /\ log' = EnterEvents(n)
    /\ reports' = <<>>
    /\ UNCHANGED <<static, children, is_init, applied>>

Top == stack[Len(stack)]
Caller == SubSeq(stack, 1, Len(stack) - 1)

\* The frame on top moves to pc.
Goto(pc) == [stack EXCEPT ![Len(stack)].pc = pc]

\* The invocation on top returns normally, the dicts being inf seen through pii:
\* the outermost call is over, or the caller runs line 91 and goes on to its
\* next child.
ReturnStack == IF Len(stack) = 1 THEN <<>> ELSE [Caller EXCEPT ![Len(Caller)].i = @ + 1]
ReturnResult == IF Len(stack) = 1 THEN "ok" ELSE result
ReturnInfo(pii, inf) == IF Len(stack) = 1 THEN inf ELSE UpdateInitInfo(pii, inf, Top.node)
ReturnEvents == IF Len(stack) = 1 THEN <<>> ELSE <<Ev("update", Top.node, 0)>>

(***************************************************************************)
(* Line 63: the guard against a second initialization.                     *)
(***************************************************************************)
\* Mutant of AlreadyInit: the guard of line 63 is missing.
AlreadyInitNever(n) == FALSE

\* Line 63.
AlreadyInit(n) == is_init[n]

\* Mutant of Abandoned: the caller catches the exception and goes on.
AbandonedInnermost == ReturnStack

\* An exception leaves init_weights: no frame catches it, every active
\* invocation is abandoned where it stands.
Abandoned == <<>>

(***************************************************************************)
(* Lines 63-84: an initialized node warns, finalizes if top-level, and     *)
(* returns; any other node splits its init_cfg and runs the non-pretrained *)
(* rules.                                                                  *)
(***************************************************************************)
Standard ==
    /\ stack # <<>>
    /\ Top.pc = "guard"
    /\ LET n == Top.node
           cfgs == OtherCfgs(Top.node)
       IN  IF AlreadyInit(n)
           THEN /\ IF Top.top
                   THEN /\ reports' = Append(reports, Report(n, info))
                        /\ params_init_info' = Cleaned(n)
                        /\ info' = ReturnInfo(Cleaned(n), Released(n, info))
                        /\ log' = log \o <<Ev("warn", n, 0)>> \o FinalizeEvents(n)
                                      \o ReturnEvents
                   ELSE /\ info' = ReturnInfo(params_init_info, info)
                        /\ log' = log \o <<Ev("warn", n, 0)>> \o ReturnEvents
                        /\ UNCHANGED <<reports, params_init_info>>
                /\ stack' = ReturnStack
                /\ result' = ReturnResult
                /\ applied' = applied
           ELSE /\ log' = log \o InitializeEvents(n, cfgs)
                /\ info' = InitializeInfo(n, cfgs)
                /\ applied' = Counted(n, cfgs)
                /\ IF Raises(n, cfgs)
                   THEN stack' = Abandoned /\ result' = "DispatchError"
                   ELSE stack' = Goto("kids") /\ result' = result
                /\ UNCHANGED <<params_init_info, reports>>
    /\ UNCHANGED <<static, children, is_init, calls, init0>>

(***************************************************************************)
(* Lines 86-90: the loop over self.children() reaches the next child that  *)
(* line 89 lets through, and calls init_weights on it (lines 44-61).       *)
(***************************************************************************)
Target(n, j) == UnwrapModel(children[n][j])

\* Mutant of Eligible: line 89 does not look at is_init.
EligibleAny(t) == HasInitWeights(t)

\* Line 89.
Eligible(t) == HasInitWeights(t) /\ ~GetIsInit(t)

\* The children of n at positions i and later that line 89 lets through.
Pending(n, i) == {j \in i..Len(children[n]) : Eligible(Target(n, j))}

\* The first of them.
NextChild(n, i) == CHOOSE j \in Pending(n, i) : \A k \in Pending(n, i) : j <= k

Recurse ==
    /\ stack # <<>>
    /\ Top.pc = "kids"
    /\ Pending(Top.node, Top.i) # {}
    /\ LET j == NextChild(Top.node, Top.i)
           target == Target(Top.node, NextChild(Top.node, Top.i))
       IN  /\ stack' = Append([stack EXCEPT ![Len(stack)].i = j], Frame(target))
           /\ params_init_info' = Propagated(target)
           /\ info' = Registered(target)
           /\ log' = log \o EnterEvents(target)
    /\ UNCHANGED <<static, children, is_init, reports, result, calls, init0, applied>>

(***************************************************************************)
(* Lines 95-102, once the loop is over: the pretrained rules; then the     *)
(* node is marked, the top-level call finalizes, and the invocation        *)
(* returns (its caller runs line 91 and goes on with the loop).            *)
(***************************************************************************)
\* Mutant of Marked: the flags are rebuilt with only n set.
MarkedOnly(n) == [m \in Nodes |-> m = n]

Marked(n) == [is_init EXCEPT ![n] = TRUE]

Override ==
    /\ stack # <<>>
    /\ Top.pc = "kids"
    /\ Pending(Top.node, Top.i) = {}
    /\ LET n == Top.node
           cfgs == PretrainedCfgs(Top.node)
           inf == InitializeInfo(Top.node, PretrainedCfgs(Top.node))
       IN  /\ applied' = Counted(n, cfgs)
           /\ IF Raises(n, cfgs)
              THEN /\ log' = log \o InitializeEvents(n, cfgs)
                   /\ info' = inf
                   /\ stack' = Abandoned
                   /\ result' = "DispatchError"
                   /\ UNCHANGED <<is_init, params_init_info, reports>>
              ELSE /\ is_init' = Marked(n)
                   /\ stack' = ReturnStack
                   /\ result' = ReturnResult
                   /\ IF Top.top
                      THEN /\ reports' = Append(reports, Report(n, inf))
                           /\ params_init_info' = Cleaned(n)
                           /\ info' = ReturnInfo(Cleaned(n), Released(n, inf))
                           /\ log' = log \o InitializeEvents(n, cfgs)
                                         \o <<Ev("done", n, 0)>> \o FinalizeEvents(n)
                                         \o ReturnEvents
                      ELSE /\ info' = ReturnInfo(params_init_info, inf)
                           /\ log' = log \o InitializeEvents(n, cfgs)
                                         \o <<Ev("done", n, 0)>> \o ReturnEvents
                           /\ UNCHANGED <<reports, params_init_info>>
    /\ UNCHANGED <<static, children, calls, init0>>

Next ==
    \/ \E p, c \in Nodes : AddChild(p, c)
    \/ \E n \in Nodes : Call(n)
    \/ Standard
    \/ Recurse
    \/ Override

Spec == Init /\ [][Next]_vars

(***************************************************************************)
(* Vocabulary of the properties.                                           *)
(***************************************************************************)
Idle == stack = <<>>

\* An outermost call has ended (and the tree was not changed since).
Ended == Idle /\ log # <<>>

\* The node the current or last outermost call was made on.
CallRoot == log[1].node

\* That call was classified top-level: it allocated the tracking dict on entry.
TopLevelCall == Len(log) >= 2 /\ log[2] = Ev("alloc", CallRoot, 0)

Tree == ModuleSet(CallRoot)

BaseNodes(S) == {n \in S : kind[n] = "base"}

At(op) == {i \in DOMAIN log : log[i].op = op}

\* The tag of rule idx of n as the specification gives it: Override for the
\* rules of type Pretrained (the string or the class), Standard for all others.
IsOverrideRule(n, idx) == init_cfg[n].body[idx].type \in {"Pretrained", "PretrainedInit"}
StandardRules(n) == {idx \in DOMAIN init_cfg[n].body : ~IsOverrideRule(n, idx)}
OverrideRules(n) == {idx \in DOMAIN init_cfg[n].body : IsOverrideRule(n, idx)}

\* The children the recursion of n descends into, whatever their flags.
ChildTargets(n) == BaseNodes({Target(n, j) : j \in DOMAIN children[n]})

RECURSIVE Visited0(_)
\* The nodes a call on the uninitialized node n visits, by the flags of init0:
\* n, and from each visited node the child targets not initialized before.
Visited0(n) ==
    {n} \cup UNION {Visited0(c) : c \in {d \in ChildTargets(n) : ~init0[d]}}

(***************************************************************************)
(* C1.  After one successful top-level call on the root, every node of the *)
(* tree is initialized and no node of the tree holds the tracking dict.    *)
(***************************************************************************)
FirstCallOnRootSucceeded ==
    /\ Ended /\ result = "ok" /\ TopLevelCall
    /\ ~HasParent(CallRoot)
    /\ \A n \in Tree : ~init0[n]

\* C1 as claimed, for a tree no node of which was initialized before: every
\* BaseModule of the tree is initialized and no module holds the dict.
C1_AllInitialized ==
    FirstCallOnRootSucceeded =>
        /\ \A n \in BaseNodes(Tree) : is_init[n]
        /\ \A n \in Tree : params_init_info[n] = None

\* C1 as amended: after a successful top-level call no module of the tree
\* holds the dict, the node called is initialized, and so is every node the
\* call reached from it through children that expose init_weights (after
\* unwrapping) and were not initialized before.
C1_VisitedInitialized ==
    (Ended /\ result = "ok" /\ TopLevelCall) =>
        /\ \A n \in Tree : params_init_info[n] = None
        /\ is_init[CallRoot]
        /\ ~init0[CallRoot] => \A n \in Visited0(CallRoot) : is_init[n]

C1_Witness ==
    /\ FirstCallOnRootSucceeded
    /\ Cardinality(Tree) = MaxNodes
    /\ Visited0(CallRoot) = Tree
    /\ \A n \in Tree : is_init[n] /\ params_init_info[n] = None

(***************************************************************************)
(* C2.  For every node N visited: all Standard rules of N are applied      *)
(* before the initialization of any child begins, and the initialization   *)
(* of every child is complete before any Override rule of N is applied.    *)
(***************************************************************************)
\* The node whose loop made the nested call on c.
CallerOf(c) == CHOOSE n \in BaseNodes(Nodes) : c \in ChildTargets(n) /\ c # n

C2_PhaseOrder ==
    /\ \A j \in At("call") : j > 1 =>
          \* every Standard rule of the caller was applied before the child began
          /\ \E n \in BaseNodes(Nodes) : log[j].node \in ChildTargets(n)
          /\ \A caller \in {CallerOf(log[j].node)} :
                /\ \A idx \in StandardRules(caller) :
                      \E i \in 1..(j - 1) : log[i] = Ev("apply", caller, idx)
                \* and no Override rule of the caller before it
                /\ \A i \in 1..(j - 1) :
                      ~(/\ log[i].op = "apply" /\ log[i].node = caller
                        /\ IsOverrideRule(log[i].node, log[i].idx))
    /\ \A j \in At("apply") : IsOverrideRule(log[j].node, log[j].idx) =>
          \* every child is initialized, by this call (done before j) or before it
          /\ \A c \in ChildTargets(log[j].node) :
                /\ is_init[c]
                /\ ~init0[c] => \E i \in 1..(j - 1) : log[i] = Ev("done", c, 0)
          \* and nothing happens in a child's subtree afterwards
          /\ \A below \in {ModuleSet(log[j].node)} :
                \A i \in (j + 1)..Len(log) :
                    (log[i].node # log[j].node /\ log[i].node \in below) =>
                        log[i].op \in {"report", "teardown"}

\* A node with both groups of rules and a child with rules, initialized in one call.
C2_Witness ==
    /\ Ended /\ result = "ok"
    /\ \E n \in Tree : \E c \in ChildTargets(n) :
          /\ StandardRules(n) # {} /\ OverrideRules(n) # {}
          /\ StandardRules(c) # {} /\ OverrideRules(c) # {}
          /\ \E i, j \in At("done") : log[i].node = c /\ log[j].node = n /\ i < j

(***************************************************************************)
(* C3.  Among the rule applications of one call, for two nodes on one      *)
(* ancestor/descendant chain (or the same node) every Standard rule        *)
(* application comes before every Override rule application.               *)
(***************************************************************************)
OnOneChain(a, d) == a \in ModuleSet(d) \/ d \in ModuleSet(a)

C3_ChainOrder ==
    \A i, j \in At("apply") :
        (/\ ~IsOverrideRule(log[i].node, log[i].idx)
         /\ IsOverrideRule(log[j].node, log[j].idx)
         /\ OnOneChain(log[i].node, log[j].node)) => i < j

\* The chain case (a descendant's Override rule after its ancestor's Standard
\* rule and before its Override rule), and the siblings no order binds: an
\* Override rule of one applied before a Standard rule of the other.
C3_Witness ==
    /\ Ended /\ result = "ok"
    /\ \E i, j, k \in At("apply") :
          /\ i < j /\ j < k
          /\ log[i].node = log[k].node /\ log[j].node # log[i].node
          /\ log[j].node \in ModuleSet(log[i].node)
          /\ ~IsOverrideRule(log[i].node, log[i].idx)
          /\ IsOverrideRule(log[j].node, log[j].idx)
          /\ IsOverrideRule(log[k].node, log[k].idx)
    /\ \E i, j \in At("apply") :
          /\ i < j
          /\ ~OnOneChain(log[i].node, log[j].node)
          /\ IsOverrideRule(log[i].node, log[i].idx)
          /\ ~IsOverrideRule(log[j].node, log[j].idx)

(***************************************************************************)
(* C4.  A second top-level call on a tree all of whose nodes are           *)
(* initialized applies no rule, changes no flag, warns once (for the node  *)
(* called), and finalizes: one report, the dict removed.                   *)
(***************************************************************************)
RepeatedCallEnded ==
    /\ Ended /\ TopLevelCall
    /\ \A n \in BaseNodes(Tree) : init0[n]

C4_Idempotent ==
    RepeatedCallEnded =>
        /\ result = "ok"
        /\ At("apply") = {} /\ At("fail") = {}
        /\ is_init = init0
        /\ \E i \in DOMAIN log : At("warn") = {i} /\ log[i].node = CallRoot
        /\ Len(reports) = 1 /\ Cardinality(At("report")) = 1
        /\ Cardinality(At("teardown")) = 1
        /\ \A n \in Tree : params_init_info[n] = None

C4_Witness ==
    /\ RepeatedCallEnded
    /\ Cardinality(Tree) = MaxNodes
    /\ \E n \in Tree : Cfgs(n) # <<>>

(***************************************************************************)
(* C5.  New uninitialized children added under an initialized root are     *)
(* initialized by a second top-level call on the root, which applies no    *)
(* rule of a node initialized before.                                      *)
(***************************************************************************)
RulesApplied(n) ==
    \A idx \in DOMAIN Cfgs(n) : \E i \in DOMAIN log : log[i] = Ev("apply", n, idx)

C5_NewChildrenInitialized ==
    (Ended /\ result = "ok" /\ TopLevelCall /\ ~HasParent(CallRoot) /\ init0[CallRoot]) =>
        /\ \A c \in ChildTargets(CallRoot) : ~init0[c] => (is_init[c] /\ RulesApplied(c))
        /\ \A i \in At("apply") : ~init0[log[i].node]

(***************************************************************************)
(* C6.  A dispatch failure aborts the whole call at once: no rule is       *)
(* applied after it, and on a tree that was uninitialized the failing      *)
(* node, its ancestors and the nodes not yet reached stay uninitialized,   *)
(* while the nodes whose pass was complete are initialized.                *)
(***************************************************************************)
FailingNode == log[Len(log)].node

C6_FailureAborts ==
    result = "DispatchError" =>
        /\ Idle
        /\ log # <<>> /\ At("fail") = {Len(log)}
        /\ (\A n \in Tree : ~init0[n]) =>
              /\ ~is_init[FailingNode]
              /\ \A a \in Tree : FailingNode \in ModuleSet(a) => ~is_init[a]
              /\ \A n \in Tree : (\A i \in At("call") : log[i].node # n) => ~is_init[n]
              /\ \A n \in Tree : is_init[n] <=> \E i \in At("done") : log[i].node = n

\* The failing node is below the node called, a sibling completed before it.
C6_Witness ==
    /\ result = "DispatchError" /\ Idle
    /\ \A n \in Tree : ~init0[n]
    /\ FailingNode # CallRoot
    /\ \E n \in Tree : is_init[n] /\ FailingNode \notin ModuleSet(n)
    /\ \E n \in Tree : n # FailingNode /\ ~is_init[n]

(***************************************************************************)
(* C7.  The tracking dict is on every node of the tree while a top-level   *)
(* call runs, and on no node before the call and after it has finished,    *)
(* also when it finished with a dispatch failure; it is torn down once.    *)
(***************************************************************************)
C7_MapLifecycle ==
    /\ Idle => \A n \in Nodes : params_init_info[n] = None
    /\ (~Idle /\ stack[1].top) => \A n \in Tree : params_init_info[n] # None
    /\ (Ended /\ TopLevelCall) => Cardinality(At("teardown")) = 1

(***************************************************************************)
(* C8.  During one top-level call one tracking dict is allocated and every *)
(* node of the tree refers to it; a nested call never allocates one and is *)
(* never classified top-level.                                             *)
(***************************************************************************)
C8_OneMap ==
    /\ \A k \in 2..Len(stack) : ~stack[k].top
    /\ Cardinality(At("alloc")) <= 1
    /\ (~Idle /\ stack[1].top) =>
          \A n \in Tree : params_init_info[n] = params_init_info[CallRoot]

(***************************************************************************)
(* C9.  A call from outside on a node that already holds a tracking dict   *)
(* fails fast with a ReentrancyError instead of traversing.                *)
(***************************************************************************)
C9_Reentrancy ==
    (log # <<>> /\ ~TopLevelCall) => result = "ReentrancyError"

(***************************************************************************)
(* C10.  No flag ever goes from true back to false; a flag becomes true    *)
(* only when the Standard rules, the children and the Override rules of    *)
(* the node are all done.                                                  *)
(***************************************************************************)
PassCompleted(n) ==
    /\ log # <<>>
    /\ \E d \in At("done") :
          /\ log[d].node = n
          /\ \A idx \in StandardRules(n) \cup OverrideRules(n) :
                \E i \in 1..(d - 1) : log[i] = Ev("apply", n, idx)
    /\ \A c \in ChildTargets(n) : is_init[c]

C10_NeverReset ==
    [][\A n \in Nodes :
          /\ is_init[n] => is_init'[n]
          /\ (~is_init[n] /\ is_init'[n]) => PassCompleted(n)']_vars

\* A flag set by an earlier call is still set after a later call that set another.
C10_Witness ==
    /\ Ended
    /\ \E n, m \in Nodes :
          /\ init0[n] /\ is_init[n]
          /\ ~init0[m] /\ is_init[m]
          /\ Cfgs(m) # <<>> /\ children[m] # <<>>

(***************************************************************************)
(* C11.  Across any sequence of calls each rule of each node is applied    *)
(* exactly once: once by the first call that initializes the tree, and     *)
(* never again.                                                            *)
(***************************************************************************)
\* C11 as claimed: no rule is ever applied twice, and a successful top-level
\* call on the root has applied every rule of every node of the tree.
C11_ExactlyOnce ==
    /\ \A n \in Nodes : \A idx \in DOMAIN Cfgs(n) : applied[n][idx] <= 1
    /\ (Ended /\ result = "ok" /\ TopLevelCall /\ ~HasParent(CallRoot)) =>
          \A n \in BaseNodes(Tree) : \A idx \in DOMAIN Cfgs(n) : applied[n][idx] = 1

\* C11 as amended: one call applies a rule at most once, and never to a node
\* whose flag is set (before the call, or by it); the call that sets the flag
\* of a node has applied each of its rules; every rule of an initialized
\* node has been applied.
C11_OncePerPass ==
    /\ \A i, j \in At("apply") :
          (log[i].node = log[j].node /\ log[i].idx = log[j].idx) => i = j
    /\ \A i \in At("apply") :
          /\ ~init0[log[i].node]
          /\ \A d \in At("done") : log[d].node = log[i].node => i < d
    /\ \A n \in Nodes : (is_init[n] /\ ~init0[n]) => RulesApplied(n)
    /\ \A n \in Nodes : is_init[n] =>
          \A idx \in DOMAIN Cfgs(n) : applied[n][idx] >= 1

\* A later call has initialized a node with rules next to a node with rules
\* that an earlier call initialized: every rule of both was applied once.
C11_Witness ==
    /\ Ended /\ result = "ok" /\ calls = 2
    /\ \E n, m \in Tree :
          /\ init0[n] /\ Len(Cfgs(n)) > 1
          /\ ~init0[m] /\ is_init[m] /\ Cfgs(m) # <<>>
          /\ \A idx \in DOMAIN Cfgs(n) : applied[n][idx] = 1
          /\ \A idx \in DOMAIN Cfgs(m) : applied[m][idx] = 1

(***************************************************************************)
(* C12.  A root with a Standard and an Override rule, a child with one     *)
(* Standard rule and no other: after a successful top-level call on the    *)
(* root the report describes the child's parameter by the child's own      *)
(* Standard rule; neither the update the parent makes after the recursion  *)
(* nor the root's Override rule has replaced the description.              *)
(***************************************************************************)
\* The description the last report of the call gives for parameter p.
Reported(p) ==
    LET r == reports[Len(reports)]
    IN  r[CHOOSE k \in DOMAIN r : r[k].name = p].info

C12_ChildProvenance ==
    (/\ Ended /\ result = "ok" /\ TopLevelCall /\ ~init0[CallRoot]
     /\ StandardRules(CallRoot) # {} /\ OverrideRules(CallRoot) # {}) =>
        \A c \in ChildTargets(CallRoot) :
            (~init0[c] /\ Cardinality(StandardRules(c)) = 1 /\ OverrideRules(c) = {}) =>
                \E idx \in StandardRules(c) : Reported(c) = Desc("rule", c, idx)

(***************************************************************************)
(* C13.  A top-level call on a tree no node of which declares a rule       *)
(* succeeds, applies no rule, marks every node initialized, and reports    *)
(* every parameter of the tree as unchanged.                               *)
(***************************************************************************)
NoRules(S) == \A n \in S : Cfgs(n) = <<>>

\* The report of the call: one record per parameter of the tree, each with
\* the description registered on entry.
AllUnchanged ==
    /\ Len(reports) = 1
    /\ {reports[1][k].name : k \in DOMAIN reports[1]} = Tree
    /\ \A k \in DOMAIN reports[1] : reports[1][k].info = Desc("unchanged", CallRoot, 0)

\* C13 as claimed, for a tree no node of which was initialized before.
C13_NoRulesAllInitialized ==
    (Ended /\ TopLevelCall /\ NoRules(Tree) /\ \A n \in Tree : ~init0[n]) =>
        /\ result = "ok"
        /\ At("apply") = {}
        /\ \A n \in BaseNodes(Tree) : is_init[n]
        /\ AllUnchanged

\* C13 as amended: the nodes marked are the node called and those the call
\* reached from it.
C13_NoRulesVisitedInitialized ==
    (Ended /\ TopLevelCall /\ NoRules(Tree)) =>
        /\ result = "ok"
        /\ At("apply") = {}
        /\ is_init[CallRoot]
        /\ ~init0[CallRoot] => \A n \in Visited0(CallRoot) : is_init[n]
        /\ AllUnchanged

\* A tree of MaxNodes modules without rules, all of them reached and marked.
C13_Witness ==
    /\ Ended /\ TopLevelCall /\ NoRules(Tree) /\ result = "ok"
    /\ \A n \in Tree : ~init0[n]
    /\ Cardinality(Tree) >= 3
    /\ Cardinality(Visited0(CallRoot)) >= 2
    /\ \A n \in BaseNodes(Tree) : is_init[n]
    /\ AllUnchanged

(***************************************************************************)
(* C14.  Finalization (the report, then the removal of the tracking dict   *)
(* from every node) runs exactly once per top-level call, in the top-level *)
(* invocation only and after the whole traversal has returned to it; a     *)
(* nested invocation never reports and never removes the dict; the report  *)
(* has one record per parameter of the tree.                               *)
(***************************************************************************)
C14_FinalizeOnce ==
    /\ (Ended /\ TopLevelCall) =>
          /\ Cardinality(At("report")) = 1 /\ Cardinality(At("teardown")) = 1
          /\ \A n \in Tree : params_init_info[n] = None
    /\ \A i \in At("report") :
          /\ log[i].node = CallRoot
          /\ i + 1 = Len(log) /\ log[i + 1] = Ev("teardown", CallRoot, 0)
    /\ \A i \in At("teardown") : i > 1 /\ log[i - 1] = Ev("report", CallRoot, 0)
    /\ Len(reports) = Cardinality(At("report"))
    /\ \A r \in DOMAIN reports :
          /\ Len(reports[r]) = Cardinality(Tree)
          /\ {reports[r][k].name : k \in DOMAIN reports[r]} = Tree

(***************************************************************************)
(* C15.  A child initialized before the call is skipped entirely by the    *)
(* recursion: it is not entered, none of its rules is applied, no warning  *)
(* is given for it, its description is not updated.  The warning is given  *)
(* only for the node the call from outside is made on.                     *)
(***************************************************************************)
C15_InitializedChildSkipped ==
    /\ \A i \in DOMAIN log :
          (init0[log[i].node] /\ log[i].node # CallRoot) =>
              log[i].op \notin {"call", "alloc", "apply", "fail", "warn", "done", "update"}
    /\ \A i \in At("warn") : log[i].node = CallRoot /\ init0[CallRoot] /\ i <= 3
    /\ Cardinality(At("warn")) <= 1

\* A call on an uninitialized node with two children with rules, one
\* initialized before and one not: the second is initialized, the first
\* appears nowhere in the log.
C15_Witness ==
    /\ Ended /\ TopLevelCall /\ result = "ok" /\ ~init0[CallRoot]
    /\ \E c, d \in ChildTargets(CallRoot) :
          /\ init0[c] /\ Cfgs(c) # <<>>
          /\ ~init0[d] /\ is_init[d] /\ Cfgs(d) # <<>>
          /\ \A i \in DOMAIN log : log[i].node # c
          /\ \E i \in At("update") : log[i].node = d

(***************************************************************************)
(* C16.  The rules tagged Override form the Override group and all others  *)
(* the Standard group; each group is applied in declared order, children   *)
(* are visited in declaration order: the sequence of rule applications is  *)
(* a function of the tree.                                                 *)
(***************************************************************************)
RECURSIVE TaggedFrom(_, _, _)
\* The applications of the rules i.. of n whose tag is Override (ovr) or
\* Standard (~ovr), in declared order.
TaggedFrom(n, i, ovr) ==
    IF i > Len(init_cfg[n].body) THEN <<>>
    ELSE (IF IsOverrideRule(n, i) = ovr THEN <<Ev("apply", n, i)>> ELSE <<>>)
             \o TaggedFrom(n, i + 1, ovr)

RECURSIVE ExpectedApplies(_)
RECURSIVE ExpectedOfChildren(_, _)
\* The applications a call on the uninitialized node n makes, by the flags of
\* init0: the Standard group of n, the applications of its children j.. in
\* declaration order, the Override group of n.
ExpectedApplies(n) ==
    TaggedFrom(n, 1, FALSE) \o ExpectedOfChildren(n, 1) \o TaggedFrom(n, 1, TRUE)
ExpectedOfChildren(n, j) ==
    IF j > Len(children[n]) THEN <<>>
    ELSE (IF kind[Target(n, j)] = "base" /\ ~init0[Target(n, j)]
          THEN ExpectedApplies(Target(n, j)) ELSE <<>>)
             \o ExpectedOfChildren(n, j + 1)

IsApply(e) == e.op = "apply"
Applies == SelectSeq(log, IsApply)

\* Checked wherever rules may just have been applied: after the Standard
\* group, after a child returned, and when the call has ended.
C16_PartitionAndOrder ==
    (log # <<>> /\ ~init0[CallRoot] /\ (Idle \/ Top.pc = "kids")) =>
        \A A \in {Applies} : \A E \in {ExpectedApplies(CallRoot)} :
            /\ Len(A) <= Len(E)
            /\ A = SubSeq(E, 1, Len(A))
            /\ (Ended /\ result = "ok") => A = E

\* A node with two rules in each group and two children with rules, all
\* initialized by one call.
C16_Witness ==
    /\ Ended /\ result = "ok" /\ ~init0[CallRoot]
    /\ Cardinality(StandardRules(CallRoot)) = 2 /\ Cardinality(OverrideRules(CallRoot)) = 2
    /\ Len(children[CallRoot]) = 2
    /\ \A j \in DOMAIN children[CallRoot] :
          Cfgs(Target(CallRoot, j)) # <<>> /\ ~init0[Target(CallRoot, j)]
    /\ Len(Applies) >= 6

(***************************************************************************)
(* C17.  After a top-level call failed with a dispatch error the tracking  *)
(* dict is still on the nodes of the tree, and the next call on a node of  *)
(* that tree is not top-level: it reuses the stale dict instead of         *)
(* creating one, writes no report and does not remove the dict.            *)
(***************************************************************************)
TopLevelCallFailed == result = "DispatchError" /\ TopLevelCall

C17_StaleMapReused ==
    /\ [](TopLevelCallFailed => \A n \in Tree : params_init_info[n] = CallRoot)
    /\ [][(TopLevelCallFailed /\ stack' # <<>> /\ stack'[1].node \in Tree) =>
              /\ ~stack'[1].top
              /\ params_init_info' = params_init_info /\ info' = info
              /\ log' = <<Ev("call", stack'[1].node, 0)>>]_vars
    /\ []((log # <<>> /\ ~TopLevelCall) =>
              /\ params_init_info[CallRoot] # None
              /\ \A i \in DOMAIN log :
                    log[i].node = CallRoot => log[i].op \notin {"alloc", "report", "teardown"}
              /\ At("alloc") = {} => (reports = <<>> /\ At("teardown") = {}))

\* The call after a failed one, on the same root, has ended: it applied a rule
\* again, no dict was created, nothing reported, the dict is still there.
C17_Witness ==
    /\ Ended /\ ~TopLevelCall /\ calls = 2
    /\ ~HasParent(CallRoot) /\ Cardinality(Tree) > 1
    /\ At("apply") # {} /\ At("alloc") = {} /\ reports = <<>>
    /\ \A n \in Tree : params_init_info[n] = CallRoot

(***************************************************************************)
(* C18.  The recursion descends only through children that expose          *)
(* init_weights: a BaseModule beneath a child without it (a plain          *)
(* container) is never visited by the call on the root; after a successful *)
(* top-level call its rules are not applied and its flag is unchanged,     *)
(* though the tracking dict was installed on it and removed from it.       *)
(***************************************************************************)
RECURSIVE Reach(_)
\* The nodes connected to n by a chain of children exposing init_weights.
Reach(n) == {n} \cup UNION {Reach(c) : c \in ChildTargets(n) \ {n}}

\* The modules of the tree of the call that no such chain reaches.
Hidden == Tree \ Reach(CallRoot)

C18_HiddenNotVisited ==
    (log # <<>> /\ \E n \in Nodes : kind[n] # "base") =>
        \A H \in {Hidden} :
            /\ \A i \in DOMAIN log : log[i].node \notin H
            /\ \A n \in H : is_init[n] = init0[n]
            /\ (~Idle /\ stack[1].top) => \A n \in H : params_init_info[n] = CallRoot
            /\ (Ended /\ TopLevelCall /\ result = "ok") =>
                  \A n \in H :
                      /\ params_init_info[n] = None
                      /\ Reported(n) = Desc("unchanged", CallRoot, 0)

\* A successful top-level call on a root whose child is a plain container
\* holding a BaseModule with a rule.
C18_Witness ==
    /\ Ended /\ TopLevelCall /\ result = "ok" /\ ~HasParent(CallRoot)
    /\ \E p \in Range(children[CallRoot]) : \E n \in Range(children[p]) :
          /\ kind[p] = "plain" /\ kind[n] = "base" /\ Cfgs(n) # <<>>
          /\ n \in Hidden
          /\ ~is_init[n] /\ params_init_info[n] = None
          /\ \A idx \in DOMAIN Cfgs(n) : applied[n][idx] = 0
          /\ Reported(n) = Desc("unchanged", CallRoot, 0)

(***************************************************************************)
(* C19.  A call from outside on an inner node S that holds no tracking     *)
(* dict is top-level for the subtree of S only: the dict is installed on   *)
(* and removed from S and its descendants, flags change only there, a node *)
(* outside keeps its flag and what it holds.  A later call on the root     *)
(* skips S and applies no rule in the subtree of S.                        *)
(***************************************************************************)
C19_InnerCallFrame ==
    /\ [][log' # <<>> =>
              \A n \in Nodes \ Tree' :
                  params_init_info'[n] = params_init_info[n] /\ is_init'[n] = is_init[n]]_vars
    /\ []((~Idle /\ stack[1].top) => \A n \in Tree : params_init_info[n] = CallRoot)
    /\ []((Ended /\ TopLevelCall /\ result = "ok") =>
              \A n \in Tree : params_init_info[n] = None)
    /\ [](\A i \in DOMAIN log : \A s \in Tree \ {CallRoot} :
              (kind[s] = "base" /\ init0[s] /\ log[i].node \in ModuleSet(s)) =>
                  log[i].op \in {"report", "teardown"})

\* The later call on the root has ended: it applied the rules of the root,
\* and every rule of S and of the child of S was applied once, by the call
\* made on S before.
C19_Witness ==
    /\ Ended /\ TopLevelCall /\ result = "ok" /\ calls = 2
    /\ ~HasParent(CallRoot) /\ ~init0[CallRoot] /\ At("apply") # {}
    /\ \E s \in ChildTargets(CallRoot) : \E d \in ChildTargets(s) :
          /\ init0[s] /\ init0[d] /\ Cfgs(s) # <<>> /\ Cfgs(d) # <<>>
          /\ \A idx \in DOMAIN Cfgs(s) : applied[s][idx] = 1
          /\ \A idx \in DOMAIN Cfgs(d) : applied[d][idx] = 1
          /\ \A i \in DOMAIN log : log[i].node \notin {s, d}

=============================================================================
